---- MODULE Spec2Model ----
(***************************************************************************)
(* MemorySettings (plugins/supported/Settings/memory.js): the in-memory    *)
(* settings registry of Bespin/Skywriter, as a state machine.              *)
(*                                                                         *)
(* The registry is an SC.Object: get/set/addObserver are the inherited     *)
(* key-value-observing primitives; memory.js overrides none of them.       *)
(* Every asynchronous step of the code (a promise that resolves, a type    *)
(* that loads, the construction timer) is one action.                      *)
(***************************************************************************)
EXTENDS Integers, Sequences, FiniteSets, Bags, TLC

(***************************************************************************)
(* JavaScript values.  A value is a record so that values of different     *)
(* JavaScript types can be compared.                                       *)
(***************************************************************************)
Undefined == [k |-> "undefined", n |-> 0, s |-> ""]
Num(n) == [k |-> "number", n |-> n, s |-> ""]
Str(s) == [k |-> "string", n |-> 0, s |-> s]

(***************************************************************************)
(* Bounds of the exploration.                                              *)
(***************************************************************************)
MaxAddSetting == 3
MaxLoadAdds == 2
MaxLoads == 1
MaxSaves == 1
\* the most promises one load or save creates (the catalog has 3 settings)
MaxPromises == 3

(***************************************************************************)
(* Types:types.  The type system is a collaborator of the registry: a type *)
(* validates a value and converts it from and to its string form.          *)
(***************************************************************************)
DigitStr == <<"0", "1", "2", "3", "4", "5", "6", "7", "8", "9">>

\* type.isValid(value) of the type named typeName
isValid(typeName, value) ==
    CASE typeName = "number" -> value.k = "number"
      [] typeName = "text"   -> value.k = "string"
      [] OTHER               -> FALSE

\* type.fromString: the outcome of parsing `value` under typeSpec;
\* ok = FALSE when the type does not resolve or the text does not parse.
fromString(value, typeSpec) ==
    CASE typeSpec = "number" /\ value.k = "number" ->
            [ok |-> TRUE, value |-> value]
      [] typeSpec = "number" /\ value.k = "string"
                             /\ (\E d \in 1..Len(DigitStr) : DigitStr[d] = value.s) ->
            [ok |-> TRUE,
             value |-> Num((CHOOSE d \in 1..Len(DigitStr) : DigitStr[d] = value.s) - 1)]
      [] typeSpec = "text" /\ value.k = "string" ->
            [ok |-> TRUE, value |-> value]
      [] typeSpec = "text" /\ value.k = "number" /\ value.n \in 0..9 ->
            [ok |-> TRUE, value |-> Str(DigitStr[value.n + 1])]
      [] OTHER -> [ok |-> FALSE, value |-> Undefined]

\* type.toString: the outcome of serializing `value` under typeSpec.
toString(value, typeSpec) ==
    CASE typeSpec \in {"number", "text"} /\ value.k = "number" /\ value.n \in 0..9 ->
            [ok |-> TRUE, value |-> Str(DigitStr[value.n + 1])]
      [] typeSpec \in {"number", "text"} /\ value.k = "string" ->
            [ok |-> TRUE, value |-> value]
      [] OTHER -> [ok |-> FALSE, value |-> Undefined]

(***************************************************************************)
(* bespin:plugins catalog.  Extensions are declared under an extension     *)
(* point and are looked up by name; an attribute an extension does not     *)
(* declare reads as "" (undefined).                                        *)
(***************************************************************************)
\* catalog.getExtensions("setting"), in declaration order
CatalogSettings ==
    << [name |-> "tabsize", type |-> "number", defaultValue |-> Num(4)],
       [name |-> "theme",   type |-> "text",   defaultValue |-> Str("dark")],
       [name |-> "size",    type |-> "number", defaultValue |-> Num(4)] >>

\* catalog.getExtensions("type").  A type extension is an object of the
\* plugin metadata: the basic types declare a name and no `type` attribute;
\* plugins may declare further type extensions with any attributes, here one
\* that is named like a setting and has a `type` attribute.
BasicTypes ==
    << [name |-> "number", type |-> ""],
       [name |-> "text",   type |-> ""] >>

Catalogs ==
    { BasicTypes,
      BasicTypes \o << [name |-> "size", type |-> "number"] >> }

VARIABLE typeExts   \* the type extensions the catalog holds (fixed at start)

NoExt == [name |-> "", type |-> ""]

getExtensions(ep) ==
    CASE ep = "setting" -> [i \in 1..Len(CatalogSettings) |->
                               [name |-> CatalogSettings[i].name,
                                type |-> CatalogSettings[i].type]]
      [] ep = "type"    -> typeExts
      [] OTHER          -> << >>

\* catalog.getExtensionByKey(ep, key): the extension of `ep` named key, or
\* NoExt (undefined)
getExtensionByKey(ep, key) ==
    LET exts == getExtensions(ep)
        hits == {i \in 1..Len(exts) : exts[i].name = key}
    IN  IF hits = {} THEN NoExt
        ELSE exts[CHOOSE i \in hits : \A j \in hits : i <= j]

\* types.getTypeExt(typeSpec): resolves to the type extension, or to a falsy
\* value for a name that is not a type
getTypeExt(typeSpec) == getExtensionByKey("type", typeSpec)

(***************************************************************************)
(* Inputs.                                                                 *)
(***************************************************************************)
\* the settingExt arguments of addSetting: the catalog's declarations and
\* three direct calls (an invalid default, an unknown type, no name)
SettingExts ==
    { CatalogSettings[i] : i \in 1..Len(CatalogSettings) } \cup
    { [name |-> "width", type |-> "number", defaultValue |-> Str("dark")],
      [name |-> "font",  type |-> "colour", defaultValue |-> Str("dark")],
      [name |-> "",      type |-> "text",   defaultValue |-> Str("dark")] }

\* the property names of the registry object that the model tracks
Keys == {"tabsize", "theme", "size", "width", "font"}

\* arguments of the external set(key, value) and resetValue(key) calls
SetKeys == {"tabsize", "font"}
SetValues == {Num(2), Str("dark")}

\* the inputs beside which loads and saves are explored
LoadExts == { CatalogSettings[i] : i \in {1, 3} }
LoadSetKeys == {"tabsize"}
SaveSetKeys == {"tabsize", "size"}

\* the setting declaration of a name (every name is declared once)
DeclOf(name) == CHOOSE e \in SettingExts : e.name = name

Entry(key, value) == [key |-> key, value |-> value]

\* the `data` arguments of _loadFromObject, as the for-in loop enumerates them
Snapshots ==
    { << Entry("unknownKey", Str("x")), Entry("tabsize", Str("2")) >>,
      << Entry("size", Str("2")), Entry("tabsize", Str("7")) >>,
      << Entry("number", Str("x")) >>,
      << Entry("size", Str("2")), Entry("number", Str("x")) >>,
      << Entry("size", Str("x")) >> }

VARIABLES
    props,      \* the registry object's properties: what get(key) returns
    observers,  \* per key, the number of observers addSetting has attached
    regs,       \* bag of registrations in flight: [ext, stage]
    nAdd,       \* addSetting calls made so far
    timer,      \* the setTimeout of init: "scheduled" or "fired"
    loads,      \* the _loadFromObject calls: [data, by, promises] and, for the
                \* properties below, the names registered when the call was made
    saves,      \* the _saveToObject calls: [promises] and, for the properties
                \* below, the properties at the time of the call
    last        \* what the last step did (call, outcome, _changeValue calls)

vars == <<typeExts, props, observers, regs, nAdd, timer, loads, saves, last>>

(***************************************************************************)
(* SC.Object key-value observing                                           *)
(***************************************************************************)
\* this.get(key)
get(key) == IF key \in DOMAIN props THEN props[key] ELSE Undefined

\* The _changeValue(key, this.get(key)) calls that this.set(key, value) makes:
\* one per observer attached to key.  Key-value observing notifies when the
\* stored value changes ("called whenever a value changes"), not when the
\* value set is the one already stored.
Notified(key, value) ==
    IF key \in Keys /\ props[key] # value
        THEN [i \in 1..observers[key] |-> Entry(key, value)]
        ELSE << >>

\* the properties after this.set(key, value): the value is stored as it is
Stored(key, value) == [props EXCEPT ![key] = value]

\* the record of a step: the call, the value get(key) returned before it, the
\* exception it raised, the _changeValue calls it made and, when the step
\* resolved the promise that _loadFromObject or _saveToObject returned, which;
\* result is the array a call returned
Did(op, key, value, error, notes, done, idx) ==
    [op |-> op, key |-> key, value |-> value, before |-> get(key),
     error |-> error, notes |-> notes, done |-> done, idx |-> idx,
     result |-> << >>]

Registered(key) == key \in Keys /\ observers[key] > 0

(***************************************************************************)
(* init                                                                    *)
(***************************************************************************)
Init ==
    /\ typeExts \in Catalogs
    /\ props = [key \in Keys |-> Undefined]
    /\ observers = [key \in Keys |-> 0]
    /\ regs = EmptyBag
    /\ nAdd = 0
    /\ timer = "scheduled"
    /\ loads = << >>
    /\ saves = << >>
    /\ last = [op |-> "init", key |-> "", value |-> Undefined, before |-> Undefined,
               error |-> "", notes |-> << >>, done |-> "", idx |-> 0,
               result |-> << >>]

(***************************************************************************)
(* addSetting and its two callbacks                                        *)
(***************************************************************************)
Reg(ext, stage) == [ext |-> ext, stage |-> stage]

addSetting(settingExt) ==
    /\ nAdd' = nAdd + 1
    /\ IF settingExt.name = ""
          THEN /\ regs' = regs
               /\ last' = Did("addSetting", settingExt.name, settingExt.defaultValue,
                              "Settings need 'name' members", << >>, "", 0)
          ELSE /\ regs' = regs (+) SetToBag({Reg(settingExt, "getTypeExt")})
               /\ last' = Did("addSetting", settingExt.name, settingExt.defaultValue,
                              "", << >>, "", 0)
    /\ UNCHANGED <<typeExts, props, observers, timer, loads, saves>>

\* the callback of types.getTypeExt(settingExt.type).then: it throws for a
\* falsy typeExt; its second test, !settingExt.defaultValue === undefined,
\* compares a boolean with undefined and never throws
typeExtResolved(settingExt) ==
    /\ BagIn(Reg(settingExt, "getTypeExt"), regs)
    /\ IF getTypeExt(settingExt.type) = NoExt
          THEN /\ regs' = regs (-) SetToBag({Reg(settingExt, "getTypeExt")})
               /\ last' = Did("typeExtResolved", settingExt.name, settingExt.defaultValue,
                              "choice.type should be one of", << >>, "", 0)
          ELSE /\ regs' = (regs (-) SetToBag({Reg(settingExt, "getTypeExt")}))
                              (+) SetToBag({Reg(settingExt, "load")})
               /\ last' = Did("typeExtResolved", settingExt.name, settingExt.defaultValue,
                              "", << >>, "", 0)
    /\ UNCHANGED <<typeExts, props, observers, nAdd, timer, loads, saves>>

\* typeLoaded without line 131: the observer is attached, the default is not
\* stored
typeLoadedNoDefault(settingExt) ==
    /\ BagIn(Reg(settingExt, "load"), regs)
    /\ regs' = regs (-) SetToBag({Reg(settingExt, "load")})
    /\ IF ~isValid(settingExt.type, settingExt.defaultValue)
          THEN /\ last' = Did("typeLoaded", settingExt.name, settingExt.defaultValue,
                              "Default value is not a valid", << >>, "", 0)
               /\ UNCHANGED <<typeExts, props, observers>>
          ELSE /\ props' = props
               /\ observers' = [observers EXCEPT ![settingExt.name] = @ + 1]
               /\ last' = Did("typeLoaded", settingExt.name, settingExt.defaultValue,
                              "", << >>, "", 0)
    /\ UNCHANGED <<typeExts, nAdd, timer, loads, saves>>

\* typeLoaded with the default stored before it is validated
typeLoadedStoreFirst(settingExt) ==
    /\ BagIn(Reg(settingExt, "load"), regs)
    /\ regs' = regs (-) SetToBag({Reg(settingExt, "load")})
    /\ props' = Stored(settingExt.name, settingExt.defaultValue)
    /\ IF ~isValid(settingExt.type, settingExt.defaultValue)
          THEN /\ last' = Did("typeLoaded", settingExt.name, settingExt.defaultValue,
                              "Default value is not a valid",
                              Notified(settingExt.name, settingExt.defaultValue), "", 0)
               /\ UNCHANGED <<typeExts, observers>>
          ELSE /\ observers' = [observers EXCEPT ![settingExt.name] = @ + 1]
               /\ last' = Did("typeLoaded", settingExt.name, settingExt.defaultValue,
                              "", Notified(settingExt.name, settingExt.defaultValue), "", 0)
    /\ UNCHANGED <<typeExts, nAdd, timer, loads, saves>>

\* the callback of typeExt.load: validate the default, store it, observe
typeLoaded(settingExt) ==
    /\ BagIn(Reg(settingExt, "load"), regs)
    /\ regs' = regs (-) SetToBag({Reg(settingExt, "load")})
    /\ IF ~isValid(settingExt.type, settingExt.defaultValue)
          THEN /\ last' = Did("typeLoaded", settingExt.name, settingExt.defaultValue,
                              "Default value is not a valid", << >>, "", 0)
               /\ UNCHANGED <<typeExts, props, observers>>
          ELSE /\ props' = Stored(settingExt.name, settingExt.defaultValue)
               /\ observers' = [observers EXCEPT ![settingExt.name] = @ + 1]
               /\ last' = Did("typeLoaded", settingExt.name, settingExt.defaultValue,
                              "", Notified(settingExt.name, settingExt.defaultValue), "", 0)
    /\ UNCHANGED <<typeExts, nAdd, timer, loads, saves>>

(***************************************************************************)
(* set and resetValue                                                      *)
(***************************************************************************)
\* settings.set(key, value): the inherited SC.Object set
set(key, value) ==
    /\ props' = Stored(key, value)
    /\ last' = Did("set", key, value, "", Notified(key, value), "", 0)
    /\ UNCHANGED <<typeExts, observers, regs, nAdd, timer, loads, saves>>

\* resetValue(key): `choice` is not defined anywhere, so reading
\* choice._settings throws a ReferenceError before anything else happens
resetValue(key) ==
    /\ last' = Did("resetValue", key, Undefined, "ReferenceError", << >>, "", 0)
    /\ UNCHANGED <<typeExts, props, observers, regs, nAdd, timer, loads, saves>>

(***************************************************************************)
(* Promises                                                                *)
(***************************************************************************)
Promise(key, typeSpec, input) ==
    [key |-> key, type |-> typeSpec, input |-> input, state |-> "pending",
     value |-> Undefined]

\* the promise once the conversion has ended with `outcome`
Settled(promise, outcome) ==
    [promise EXCEPT !.state = IF outcome.ok THEN "resolved" ELSE "rejected",
                    !.value = outcome.value]

\* groupPromises(promises): resolved once every promise of the list has
\* resolved (at once for an empty list), rejected as soon as one is rejected
groupPromises(promises) ==
    IF \E i \in 1..Len(promises) : promises[i].state = "rejected" THEN "rejected"
    ELSE IF \A i \in 1..Len(promises) : promises[i].state = "resolved" THEN "resolved"
    ELSE "pending"

\* replyPromise: resolved by the success callback of the group, by nothing else
replyPromise(promises) ==
    IF groupPromises(promises) = "resolved" THEN "resolved" ELSE "pending"

(***************************************************************************)
(* _loadFromObject                                                         *)
(***************************************************************************)
\* the entries of data for which catalog.getExtensionByKey("type", key) is truthy
Convertible(data) ==
    SelectSeq(data, LAMBDA e : getExtensionByKey("type", e.key) # NoExt)

\* the promises array that the for-in loop of _loadFromObject builds
loadPromises(data) ==
    LET found == Convertible(data)
    IN  [i \in 1..Len(found) |->
            Promise(found[i].key, getExtensionByKey("type", found[i].key).type,
                    found[i].value)]

\* `var key` is function-scoped: when a then-callback runs, the loop has ended
\* and key is the last key that was enumerated
closureKey(data) == data[Len(data)].key

_loadFromObject(data, by) ==
    /\ loads' = Append(loads, [data |-> data, by |-> by, promises |-> loadPromises(data),
                                registered |-> {key \in Keys : Registered(key)}])
    /\ last' = Did("_loadFromObject", "", Undefined, "", << >>,
                   IF replyPromise(loadPromises(data)) = "resolved" THEN "load" ELSE "",
                   Len(loads) + 1)
    /\ UNCHANGED <<typeExts, props, observers, regs, nAdd, saves>>

\* _defaultValues(): name -> defaultValue of the catalog's settings
_defaultValues ==
    [i \in 1..Len(CatalogSettings) |->
        Entry(CatalogSettings[i].name, CatalogSettings[i].defaultValue)]

\* the timer of init fires: _loadInitialValues -> _loadDefaultValues
_loadInitialValues ==
    /\ timer = "scheduled"
    /\ timer' = "fired"
    /\ _loadFromObject(_defaultValues, "init")

\* a subclass (or any caller) loads a snapshot
loadFrom(data) ==
    /\ Cardinality({i \in 1..Len(loads) : loads[i].by = "call"}) < MaxLoads
    /\ _loadFromObject(data, "call")
    /\ UNCHANGED timer

\* a load whose then-callback is bound and stores the text as it was given
fromStringSettledRaw(l, i) ==
    /\ l \in 1..Len(loads)
    /\ i \in 1..Len(loads[l].promises)
    /\ loads[l].promises[i].state = "pending"
    /\ LET p == loads[l].promises[i]
           outcome == fromString(p.input, p.type)
           after == [loads[l].promises EXCEPT ![i] = Settled(p, outcome)]
       IN  /\ loads' = [loads EXCEPT ![l].promises = after]
           /\ props' = IF outcome.ok THEN Stored(p.key, p.input) ELSE props
           /\ last' = Did("fromStringSettled", p.key, outcome.value, "", << >>,
                          IF replyPromise(after) = "resolved" THEN "load" ELSE "", l)
    /\ UNCHANGED <<typeExts, observers, regs, nAdd, timer, saves>>

\* types.fromString of promise i of load l ends.  On success the callback
\* `function(value) { this.set(key, value); }` runs: it is not bound, so `this`
\* is not the registry and the call raises a TypeError; no property of the
\* registry is written.  The group callback then resolves replyPromise if this
\* was the last promise.
fromStringSettled(l, i) ==
    /\ l \in 1..Len(loads)
    /\ i \in 1..Len(loads[l].promises)
    /\ loads[l].promises[i].state = "pending"
    /\ LET p == loads[l].promises[i]
           outcome == fromString(p.input, p.type)
           after == [loads[l].promises EXCEPT ![i] = Settled(p, outcome)]
       IN  /\ loads' = [loads EXCEPT ![l].promises = after]
           /\ last' = Did("fromStringSettled", closureKey(loads[l].data), outcome.value,
                          IF outcome.ok THEN "TypeError" ELSE "", << >>,
                          IF replyPromise(after) = "resolved" THEN "load" ELSE "", l)
    /\ UNCHANGED <<typeExts, props, observers, regs, nAdd, timer, saves>>

(***************************************************************************)
(* _getSettingNames and _saveToObject                                      *)
(***************************************************************************)
\* only the names whose registration has completed
registeredSettingNames ==
    SelectSeq([i \in 1..Len(getExtensions("setting")) |-> getExtensions("setting")[i].name],
              Registered)

_getSettingNames ==
    [i \in 1..Len(getExtensions("setting")) |-> getExtensions("setting")[i].name]

\* exports.getSettingNames(): the call of _getSettingNames on the registry
getSettingNames ==
    /\ last' = [Did("getSettingNames", "", Undefined, "", << >>, "", 0)
                    EXCEPT !.result = _getSettingNames]
    /\ UNCHANGED <<typeExts, props, observers, regs, nAdd, timer, loads, saves>>

\* _list(): the callback of the forEach reads `prop`, which is not defined
\* anywhere (its parameter is `key`), so the first name throws a
\* ReferenceError; with no name to visit the empty reply is returned
_list ==
    /\ last' = IF _getSettingNames = << >>
                   THEN Did("_list", "", Undefined, "", << >>, "", 0)
                   ELSE Did("_list", "", Undefined, "ReferenceError", << >>, "", 0)
    /\ UNCHANGED <<typeExts, props, observers, regs, nAdd, timer, loads, saves>>

\* the promises array that the forEach of _saveToObject builds
savePromises ==
    LET found == SelectSeq(_getSettingNames,
                           LAMBDA key : getExtensionByKey("type", key) # NoExt)
    IN  [i \in 1..Len(found) |->
            Promise(found[i], getExtensionByKey("type", found[i]).type, get(found[i]))]

\* reply: the keys written so far by the then-callbacks
reply(promises) ==
    { Entry(promises[i].key, promises[i].value) :
        i \in {j \in 1..Len(promises) : promises[j].state = "resolved"} }

_saveToObject ==
    /\ Len(saves) < MaxSaves
    /\ saves' = Append(saves, [promises |-> savePromises, at |-> props])
    /\ last' = Did("_saveToObject", "", Undefined, "", << >>,
                   IF replyPromise(savePromises) = "resolved" THEN "save" ELSE "",
                   Len(saves) + 1)
    /\ UNCHANGED <<typeExts, props, observers, regs, nAdd, timer, loads>>

\* a save whose conversion reads the value when it ends, not when
\* _saveToObject was called
toStringSettledLate(s, i) ==
    /\ s \in 1..Len(saves)
    /\ i \in 1..Len(saves[s].promises)
    /\ saves[s].promises[i].state = "pending"
    /\ LET p == saves[s].promises[i]
           outcome == toString(get(p.key), p.type)
           after == [saves[s].promises EXCEPT ![i] = Settled(p, outcome)]
       IN  /\ saves' = [saves EXCEPT ![s].promises = after]
           /\ last' = Did("toStringSettled", p.key, outcome.value, "", << >>,
                          IF replyPromise(after) = "resolved" THEN "save" ELSE "", s)
    /\ UNCHANGED <<typeExts, props, observers, regs, nAdd, timer, loads>>

\* types.toString of promise i of save s ends; on success reply[key] = value
toStringSettled(s, i) ==
    /\ s \in 1..Len(saves)
    /\ i \in 1..Len(saves[s].promises)
    /\ saves[s].promises[i].state = "pending"
    /\ LET p == saves[s].promises[i]
           outcome == toString(p.input, p.type)
           after == [saves[s].promises EXCEPT ![i] = Settled(p, outcome)]
       IN  /\ saves' = [saves EXCEPT ![s].promises = after]
           /\ last' = Did("toStringSettled", p.key, outcome.value, "", << >>,
                          IF replyPromise(after) = "resolved" THEN "save" ELSE "", s)
    /\ UNCHANGED <<typeExts, props, observers, regs, nAdd, timer, loads>>

\* the reply object a resolved save hands over, as the data of a load: one
\* entry per then-callback that ran
replyData(promises) ==
    LET written == SelectSeq(promises, LAMBDA p : p.state = "resolved")
    IN  [i \in 1..Len(written) |-> Entry(written[i].key, written[i].value)]

\* the snapshot that save s resolved with is loaded back
loadSaved(s) ==
    /\ s \in 1..Len(saves)
    /\ replyPromise(saves[s].promises) = "resolved"
    /\ Cardinality({l \in 1..Len(loads) : loads[l].by = "saved"}) < MaxLoads
    /\ _loadFromObject(replyData(saves[s].promises), "saved")
    /\ UNCHANGED timer

(***************************************************************************)
(* Specifications.  Spec: registration, set and resetValue.  SpecLoad: the *)
(* construction timer and _loadFromObject beside registration and set.     *)
(* SpecSave: _saveToObject beside registration and set.                    *)
(***************************************************************************)
Next ==
    \/ \E e \in SettingExts : nAdd < MaxAddSetting /\ addSetting(e)
    \/ \E e \in SettingExts : typeExtResolved(e)
    \/ \E e \in SettingExts : typeLoaded(e)
    \/ \E key \in SetKeys, value \in SetValues : set(key, value)
    \/ \E key \in SetKeys : resetValue(key)
    \/ getSettingNames
    \/ _list

Spec == Init /\ [][Next]_vars

NextLoad ==
    \/ \E e \in LoadExts : nAdd < MaxLoadAdds /\ addSetting(e)
    \/ \E e \in LoadExts : typeExtResolved(e)
    \/ \E e \in LoadExts : typeLoaded(e)
    \/ \E key \in LoadSetKeys : set(key, Num(2))
    \/ _loadInitialValues
    \/ \E data \in Snapshots : loadFrom(data)
    \/ \E l \in 1..(MaxLoads + 1), i \in 1..MaxPromises : fromStringSettled(l, i)

SpecLoad == Init /\ [][NextLoad]_vars

NextSave ==
    \/ \E e \in LoadExts : nAdd < MaxLoadAdds /\ addSetting(e)
    \/ \E e \in LoadExts : typeExtResolved(e)
    \/ \E e \in LoadExts : typeLoaded(e)
    \/ \E key \in SaveSetKeys : set(key, Num(2))
    \/ _saveToObject
    \/ \E s \in 1..MaxSaves, i \in 1..MaxPromises : toStringSettled(s, i)
    \/ \E s \in 1..MaxSaves : loadSaved(s)
    \/ \E l \in 1..MaxLoads, i \in 1..MaxPromises : fromStringSettled(l, i)

SpecSave == Init /\ [][NextSave]_vars

(***************************************************************************)
(* Properties                                                              *)
(***************************************************************************)
\* the step just taken completed a registration of a name that was
\* registered before it
ReRegistered ==
    /\ last.op = "typeLoaded"
    /\ observers[last.key] > (IF last.error = "" THEN 1 ELSE 0)

\* the loads made through loadFrom
CallLoads == {l \in 1..Len(loads) : loads[l].by = "call"}

\* the entries of load l whose key named a registered setting at the call
KnownEntries(l) ==
    {i \in 1..Len(loads[l].data) : loads[l].data[i].key \in loads[l].registered}

\* C1: the value get returns for a registered setting is valid under the
\* validator of the setting's declared type, in every reachable state.
C1_StoredValuesValid ==
    \A key \in Keys :
        (Registered(key) /\ get(key) # Undefined)
            => isValid(DeclOf(key).type, get(key))

\* C2: a set of a registered setting to a value that is invalid under its
\* type fails, leaves get(name) as it was and delivers no notification.
C2_InvalidSetRejected ==
    (/\ last.op = "set"
     /\ Registered(last.key)
     /\ ~isValid(DeclOf(last.key).type, last.value))
        => /\ last.error # ""
           /\ get(last.key) = last.before
           /\ last.notes = << >>

\* C3: a set of a registered setting to a valid value makes get(name) return
\* the value and calls _changeValue(name, value) exactly once.  Stated for
\* the sets that change the value.
C3_ValidSetNotifiesOnce ==
    (/\ last.op = "set"
     /\ Registered(last.key)
     /\ isValid(DeclOf(last.key).type, last.value)
     /\ last.value # last.before)
        => /\ get(last.key) = last.value
           /\ last.notes = << Entry(last.key, last.value) >>

\* C4: a registration of a name that is already registered fails, does not
\* overwrite the setting's current value and attaches no further observer.
C4_DuplicateRegistrationRejected ==
    ReRegistered
        => /\ last.error # ""
           /\ get(last.key) = last.before
           /\ observers[last.key] = 1

\* C5: resetValue(name) of a registered setting leaves get(name) equal to the
\* declared defaultValue and notifies as a set of the default would; for an
\* unregistered name it fails.
C5_ResetRestoresDefault ==
    last.op = "resetValue"
        => IF Registered(last.key)
              THEN /\ last.error = ""
                   /\ get(last.key) = DeclOf(last.key).defaultValue
                   /\ (last.before # DeclOf(last.key).defaultValue
                          => last.notes = << Entry(last.key, DeclOf(last.key).defaultValue) >>)
              ELSE last.error # ""

\* C6: when a loadFrom completes, every key of the snapshot that names a
\* registered setting and whose string parses under the setting's declared
\* type has the parsed value as its current value.
C6_LoadAppliesParsedValues ==
    (last.done = "load" /\ last.idx \in CallLoads)
        => \A i \in KnownEntries(last.idx) :
              LET e == loads[last.idx].data[i]
                  parsed == fromString(e.value, DeclOf(e.key).type)
              IN  parsed.ok => get(e.key) = parsed.value

\* C7: loadFrom ignores the snapshot keys that name no registered setting: no
\* conversion is requested for such a key (so that none can fail), and the
\* load completes as soon as the keys of registered settings are dealt with.
C7_UnknownKeysIgnored ==
    \A l \in CallLoads :
        LET ps == loads[l].promises
            known == {i \in 1..Len(ps) : ps[i].key \in loads[l].registered}
        IN  /\ \A i \in 1..Len(ps) : ps[i].key \in loads[l].registered
            /\ (\A i \in known : ps[i].state # "pending")
                  => replyPromise(ps) = "resolved"

\* C8: a parse failure for one key is isolated: once every per-key parse of the
\* load has succeeded or failed, the completion signal is resolved and the
\* keys that parsed are loaded.
C8_ParseFailureIsolated ==
    \A l \in CallLoads :
        LET ps == loads[l].promises
        IN  (/\ \E i \in 1..Len(ps) : /\ ps[i].state = "rejected"
                                        /\ ps[i].key \in loads[l].registered
             /\ \A i \in 1..Len(ps) : ps[i].state # "pending")
                => /\ replyPromise(ps) = "resolved"
                   /\ (last.op = "fromStringSettled" /\ last.idx = l)
                         => \A i \in 1..Len(ps) :
                               (ps[i].state = "resolved" /\ ps[i].key \in loads[l].registered)
                                   => get(ps[i].key) = ps[i].value

\* C9: at the moment the completion signal of a load resolves, no per-key
\* parse of the load is pending and every value that parsed has been applied.
C9_ResolvedAfterAllApplied ==
    (last.done = "load" /\ last.idx \in CallLoads)
        => LET ps == loads[last.idx].promises
           IN  \A i \in 1..Len(ps) :
                  /\ ps[i].state # "pending"
                  /\ (ps[i].state = "resolved" /\ ps[i].key \in loads[last.idx].registered)
                        => get(ps[i].key) = ps[i].value

\* C10: _saveToObject resolves, with no serialization pending, with a mapping
\* whose keys are exactly the registered setting names and whose values are
\* the string forms of the settings' current values under their types.
C10_SaveCoversRegistered ==
    last.done = "save"
        => LET ps == saves[last.idx].promises
               r == reply(ps)
           IN  /\ \A i \in 1..Len(ps) : ps[i].state # "pending"
               /\ {e.key : e \in r} = {key \in Keys : Registered(key)}
               /\ \A e \in r :
                     e.value = toString(get(e.key), DeclOf(e.key).type).value

\* C11: _changeValue(name, value) is called for every successful set and reset
\* of a registered setting, the application of the default by the setting's
\* registration included.  Stated for the steps that change the value.
C11_EveryApplicationNotifies ==
    (/\ last.op \in {"set", "resetValue", "typeLoaded"}
     /\ last.error = ""
     /\ Registered(last.key)
     /\ get(last.key) # last.before)
        => \E i \in 1..Len(last.notes) : last.notes[i] = Entry(last.key, get(last.key))

\* C12: once the registration of a setting has completed, get(name) is the
\* declared defaultValue, and stays it until a set of that name.
C12_DefaultAfterRegistration ==
    [][ /\ (last'.op = "typeLoaded" /\ last'.error = "")
            => props'[last'.key] = DeclOf(last'.key).defaultValue
        /\ \A key \in Keys :
              (/\ Registered(key)
               /\ get(key) = DeclOf(key).defaultValue
               /\ ~(last'.op = "set" /\ last'.key = key))
                  => get(key)' = DeclOf(key).defaultValue ]_vars

\* a registration has just completed over a value that was not the default
C12_Witness ==
    /\ last.op = "typeLoaded"
    /\ last.error = ""
    /\ last.before # DeclOf(last.key).defaultValue
    /\ get(last.key) = DeclOf(last.key).defaultValue

\* C13: a set of a name that is not registered fails and changes nothing: no
\* value becomes visible under the name and nothing is notified.
C13_UnknownSetRejected ==
    (last.op = "set" /\ ~Registered(last.key))
        => /\ last.error # ""
           /\ get(last.key) = last.before
           /\ last.notes = << >>

\* the step just taken ended a registration whose type does not resolve
UnknownTypeStep(l) ==
    l.op = "typeExtResolved" /\ getTypeExt(DeclOf(l.key).type) = NoExt

\* the step just taken ended a registration whose default is not valid
InvalidDefaultStep(l) ==
    l.op = "typeLoaded" /\ ~isValid(DeclOf(l.key).type, DeclOf(l.key).defaultValue)

\* C14: a registration whose type name does not resolve, or whose default
\* fails the validator of the type, is aborted by an exception that says so:
\* no value is stored, no observer is attached, nothing is notified and every
\* setting is as it was.
C14_FailedRegistrationAborts ==
    [][ /\ UnknownTypeStep(last') => last'.error = "choice.type should be one of"
        /\ InvalidDefaultStep(last') => last'.error = "Default value is not a valid"
        /\ (UnknownTypeStep(last') \/ InvalidDefaultStep(last'))
              => /\ props' = props
                 /\ observers' = observers
                 /\ last'.notes = << >>
                 /\ observers'[last'.key] = 0 ]_vars

\* a registration with an invalid default has just been aborted, beside a
\* registered setting
C14_Witness ==
    /\ InvalidDefaultStep(last)
    /\ last.error # ""
    /\ \E key \in Keys : Registered(key)

C16_ListPairsEveryName ==
    last.op = "_list"
        => /\ last.error = ""
           /\ last.result = [i \in 1..Len(_getSettingNames) |->
                                Entry(_getSettingNames[i], get(_getSettingNames[i]))]

\* C17: get(name) is undefined for every name whose registration has not
\* completed.
C17_AbsentUntilRegistered ==
    \A key \in Keys : ~Registered(key) => get(key) = Undefined

\* C18: init applies nothing inline, it only schedules the initialization;
\* once the initialization has run and its load has resolved, every default
\* the catalog declares has been applied.
C18_InitAppliesDefaults ==
    /\ timer = "scheduled"
          => \A l \in 1..Len(loads) : loads[l].by # "init"
    /\ (last.done = "load" /\ loads[last.idx].by = "init")
          => \A i \in 1..Len(CatalogSettings) :
                get(CatalogSettings[i].name) = CatalogSettings[i].defaultValue

\* C19: when the promise of a save resolves, every entry of the snapshot is
\* the serialization of the value its setting held when _saveToObject was
\* called, whatever was set in between.
C19_SnapshotOfCallTime ==
    last.done = "save"
        => \A e \in reply(saves[last.idx].promises) :
              e.value = toString(saves[last.idx].at[e.key], DeclOf(e.key).type).value

C19_Witness ==
    /\ last.done = "save"
    /\ \E e \in reply(saves[last.idx].promises) :
          /\ Registered(e.key)
          /\ saves[last.idx].at[e.key] = DeclOf(e.key).defaultValue
          /\ get(e.key) # saves[last.idx].at[e.key]

\* the step is one of a load of the snapshot of save s, made while the
\* registry holds what it held when save s was called
LoadsBack(s) ==
    /\ last'.op \in {"_loadFromObject", "fromStringSettled"}
    /\ loads'[last'.idx].by = "saved"
    /\ loads'[last'.idx].data = replyData(saves[s].promises)
    /\ props = saves[s].at

\* C20: loading the snapshot of a save back, with no set since the save,
\* leaves get(name) unchanged for every registered setting.
C20_SaveLoadIdentity ==
    [][ \A s \in 1..Len(saves) :
          LoadsBack(s) => \A key \in Keys : Registered(key) => props'[key] = props[key] ]_vars

C20_Witness ==
    /\ last.op = "fromStringSettled" /\ last.done = "load"
    /\ loads[last.idx].by = "saved"
    /\ \E s \in 1..Len(saves) :
          /\ loads[last.idx].data = replyData(saves[s].promises)
          /\ props = saves[s].at
          /\ \E i \in 1..Len(loads[last.idx].data) :
                /\ Registered(loads[last.idx].data[i].key)
                /\ fromString(loads[last.idx].data[i].value,
                              DeclOf(loads[last.idx].data[i].key).type).value
                      = get(loads[last.idx].data[i].key)

=============================================================================
